---- MODULE Spec2Model ----
(***************************************************************************)
(* Model of the Universal Model Registry repository:                       *)
(*   - scripts/auto_update.py: one run of main(), which checks the six     *)
(*     providers concurrently, adds Meta, prints a report and exits;       *)
(*   - the registry query tools (registry.py), as far as their tests in    *)
(*     tests/test_registry.py and the specification describe them.         *)
(* Strings the code inspects character by character (model IDs, skip       *)
(* prefixes) are sequences of one-character strings.                       *)
(***************************************************************************)
EXTENDS Integers, Sequences, FiniteSets, TLC

\* ------------------------------------------------------------------ bounds
\* Largest number of entries of the registry (MODELS).
MaxReg == 1
\* Largest number of entries in one provider's list-models response.
MaxApi == 1
\* Largest number of API-key environment variables that are set non-empty.
MaxKeysSet == 2

\* ------------------------------------------------------- string primitives
UPPER ==
  <<"A", "B", "C", "D", "E", "F", "G", "H", "I", "J", "K", "L", "M",
    "N", "O", "P", "Q", "R", "S", "T", "U", "V", "W", "X", "Y", "Z">>
LOWER ==
  <<"a", "b", "c", "d", "e", "f", "g", "h", "i", "j", "k", "l", "m",
    "n", "o", "p", "q", "r", "s", "t", "u", "v", "w", "x", "y", "z">>
DIGITS == {"0", "1", "2", "3", "4", "5", "6", "7", "8", "9"}

\* str.lower() on one character.
lower_char(c) ==
  IF \E i \in 1..Len(UPPER) : UPPER[i] = c
  THEN LOWER[CHOOSE i \in 1..Len(UPPER) : UPPER[i] = c]
  ELSE c

\* str.lower()
lower(s) == [i \in 1..Len(s) |-> lower_char(s[i])]

\* str.startswith(prefix)
startswith(s, prefix) ==
  /\ Len(prefix) <= Len(s)
  /\ \A i \in 1..Len(prefix) : s[i] = prefix[i]

\* name.split("/")[-1]: what follows the last "/", the whole name without one.
split_last(name) ==
  LET slashes == {i \in 1..Len(name) : name[i] = "/"}
      from == IF slashes = {} THEN 1
              ELSE (CHOOSE i \in slashes : \A j \in slashes : j <= i) + 1
  IN  SubSeq(name, from, Len(name))

\* ---------------------------------------------------------- skip rules
OPENAI_SKIP_PREFIXES ==
  << <<"w", "h", "i", "s", "p", "e", "r">>,
     <<"t", "t", "s">>,
     <<"d", "a", "l", "l", "-", "e">>,
     <<"t", "e", "x", "t", "-", "e", "m", "b", "e", "d", "d", "i", "n", "g">>,
     <<"t", "e", "x", "t", "-", "m", "o", "d", "e", "r", "a", "t", "i", "o", "n">>,
     <<"b", "a", "b", "b", "a", "g", "e">>,
     <<"d", "a", "v", "i", "n", "c", "i">>,
     <<"c", "a", "n", "a", "r", "y", "-">>,
     <<"c", "h", "a", "t", "g", "p", "t", "-">>,
     <<"c", "o", "d", "e", "x", "-">>,
     <<"o", "m", "n", "i", "-">>,
     <<"c", "o", "m", "p", "u", "t", "e", "r", "-", "u", "s", "e", "-">>,
     <<"g", "p", "t", "-", "3", ".", "5">>,
     <<"g", "p", "t", "-", "4", "-">>,
     <<"g", "p", "t", "-", "4", "o", "-", "a", "u", "d", "i", "o">>,
     <<"g", "p", "t", "-", "4", "o", "-", "m", "i", "n", "i", "-", "a", "u", "d", "i", "o">>,
     <<"g", "p", "t", "-", "4", "o", "-", "r", "e", "a", "l", "t", "i", "m", "e">>,
     <<"g", "p", "t", "-", "4", "o", "-", "m", "i", "n", "i", "-", "r", "e", "a", "l", "t", "i", "m", "e">>,
     <<"g", "p", "t", "-", "4", "o", "-", "t", "r", "a", "n", "s", "c", "r", "i", "b", "e">>,
     <<"g", "p", "t", "-", "4", "o", "-", "m", "i", "n", "i", "-", "t", "r", "a", "n", "s", "c", "r", "i", "b", "e">>,
     <<"g", "p", "t", "-", "4", "o", "-", "s", "e", "a", "r", "c", "h">>,
     <<"g", "p", "t", "-", "4", "o", "-", "m", "i", "n", "i", "-", "s", "e", "a", "r", "c", "h">>,
     <<"g", "p", "t", "-", "4", "o", "-", "m", "i", "n", "i", "-", "t", "t", "s">>,
     <<"g", "p", "t", "-", "i", "m", "a", "g", "e">>,
     <<"g", "p", "t", "-", "a", "u", "d", "i", "o">>,
     <<"g", "p", "t", "-", "r", "e", "a", "l", "t", "i", "m", "e">>,
     <<"s", "o", "r", "a">>,
     <<"o", "1">> >>

GOOGLE_SKIP_PREFIXES ==
  << <<"e", "m", "b", "e", "d", "d", "i", "n", "g">>,
     <<"t", "e", "x", "t", "-", "e", "m", "b", "e", "d", "d", "i", "n", "g">>,
     <<"a", "q", "a">>,
     <<"i", "m", "a", "g", "e", "n">>,
     <<"v", "e", "o">>,
     <<"g", "e", "m", "m", "a">>,
     <<"l", "e", "a", "r", "n", "l", "m">>,
     <<"t", "u", "n", "e", "d", "M", "o", "d", "e", "l", "s">> >>

XAI_SKIP_PREFIXES ==
  << <<"e", "m", "b", "e", "d", "d", "i", "n", "g">>,
     <<"a", "u", "r", "o", "r", "a">>,
     <<"g", "r", "o", "k", "-", "2">> >>

DEEPSEEK_SKIP_PREFIXES ==
  << <<"d", "e", "e", "p", "s", "e", "e", "k", "-", "c", "o", "d", "e", "r">>,
     <<"d", "e", "e", "p", "s", "e", "e", "k", "-", "e", "m", "b", "e", "d">> >>

MISTRAL_SKIP_PREFIXES ==
  << <<"m", "i", "s", "t", "r", "a", "l", "-", "e", "m", "b", "e", "d">>,
     <<"m", "i", "s", "t", "r", "a", "l", "-", "m", "o", "d", "e", "r", "a", "t", "i", "o", "n">>,
     <<"m", "i", "s", "t", "r", "a", "l", "-", "o", "c", "r">>,
     <<"p", "i", "x", "t", "r", "a", "l", "-", "l", "a", "r", "g", "e">>,
     <<"o", "p", "e", "n", "-">>,
     <<"f", "t", ":">>,
     <<"p", "i", "x", "t", "r", "a", "l", "-", "1", "2", "b">> >>


\* ------------------------------------------- model IDs used as inputs
ID_gpt_5 == <<"g", "p", "t", "-", "5">>
ID_o1 == <<"o", "1">>
ID_gpt_5_dated == <<"g", "p", "t", "-", "5", "-", "2", "0", "2", "5", "-", "0", "8", "-", "0", "7">>
NAME_gemini == <<"m", "o", "d", "e", "l", "s", "/", "g", "e", "m", "i", "n", "i", "-", "2", ".", "5", "-", "p", "r", "o">>
ID_gemini == <<"g", "e", "m", "i", "n", "i", "-", "2", ".", "5", "-", "p", "r", "o">>
NAME_gemma == <<"m", "o", "d", "e", "l", "s", "/", "g", "e", "m", "m", "a", "-", "3">>
NAME_tuned == <<"m", "o", "d", "e", "l", "s", "/", "t", "u", "n", "e", "d", "M", "o", "d", "e", "l", "s", "-", "d", "e", "m", "o">>
ID_grok_2 == <<"g", "r", "o", "k", "-", "2">>
ID_grok_dated == <<"g", "r", "o", "k", "-", "4", "-", "2", "0", "2", "5", "-", "0", "7", "-", "0", "9">>
ID_deepseek_chat == <<"d", "e", "e", "p", "s", "e", "e", "k", "-", "c", "h", "a", "t">>
ID_deepseek_coder == <<"d", "e", "e", "p", "s", "e", "e", "k", "-", "c", "o", "d", "e", "r">>
ID_mistral_large == <<"m", "i", "s", "t", "r", "a", "l", "-", "l", "a", "r", "g", "e">>
ID_open_mistral == <<"O", "p", "e", "n", "-", "m", "i", "s", "t", "r", "a", "l", "-", "7", "b">>
ID_claude == <<"c", "l", "a", "u", "d", "e", "-", "o", "p", "u", "s", "-", "4", "-", "6">>

\* ------------------------------------------------------- should_skip_model
\* _DATED_SNAPSHOT_RE matched so that the match ends at position e:
\* "-", four digits, "-", two digits, "-", two digits.
dated_match_ending_at(s, e) ==
  /\ e >= 11
  /\ e <= Len(s)
  /\ s[e - 10] = "-"
  /\ \A k \in {e - 9, e - 8, e - 7, e - 6} : s[k] \in DIGITS
  /\ s[e - 5] = "-"
  /\ \A k \in {e - 4, e - 3} : s[k] \in DIGITS
  /\ s[e - 2] = "-"
  /\ \A k \in {e - 1, e} : s[k] \in DIGITS

\* _DATED_SNAPSHOT_RE.search(s) is not None.  In Python "$" matches at the
\* end of the string and also just before a newline that ends the string.
DATED_SNAPSHOT_RE_search(s) ==
  \/ dated_match_ending_at(s, Len(s))
  \/ /\ Len(s) >= 1
     /\ s[Len(s)] = "\n"
     /\ dated_match_ending_at(s, Len(s) - 1)

should_skip_model(model_id, skip_prefixes, filter_dated_snapshots) ==
  LET model_lower == lower(model_id)
  IN  IF \E i \in 1..Len(skip_prefixes) : startswith(model_lower, skip_prefixes[i])
      THEN TRUE
      ELSE filter_dated_snapshots /\ DATED_SNAPSHOT_RE_search(model_id)

\* ------------------------------------------------------------- providers
\* The tasks main() hands to asyncio.gather, in argument order.
GatherOrder == <<"OpenAI", "Anthropic", "Google", "xAI", "DeepSeek", "Mistral">>
\* The providers whose detect function calls a list-models endpoint.
ApiProviders == {"OpenAI", "Google", "xAI", "DeepSeek", "Mistral"}

ENV_VAR(p) ==
  CASE p = "OpenAI"   -> "OPENAI_API_KEY"
    [] p = "Google"   -> "GOOGLE_API_KEY"
    [] p = "xAI"      -> "XAI_API_KEY"
    [] p = "DeepSeek" -> "DEEPSEEK_API_KEY"
    [] p = "Mistral"  -> "MISTRAL_API_KEY"

SKIP_PREFIXES(p) ==
  CASE p = "OpenAI"   -> OPENAI_SKIP_PREFIXES
    [] p = "Google"   -> GOOGLE_SKIP_PREFIXES
    [] p = "xAI"      -> XAI_SKIP_PREFIXES
    [] p = "DeepSeek" -> DEEPSEEK_SKIP_PREFIXES
    [] p = "Mistral"  -> MISTRAL_SKIP_PREFIXES

\* Only detect_openai passes filter_dated_snapshots=True.
FILTER_DATED(p) == p = "OpenAI"

\* The key under which the response body holds the list of models, and the
\* key under which an item of the list holds the model's name.
LIST_KEY(p) == IF p = "Google" THEN "models" ELSE "data"
ITEM_KEY(p) == IF p = "Google" THEN "name" ELSE "id"

\* ------------------------------------------------------------- registry
\* Entries a registry (MODELS) may hold; the key of an entry is its id.
RegistryPool ==
  { [id |-> ID_gpt_5, display_name |-> "GPT-5", provider |-> "OpenAI",
     status |-> "current", vision |-> TRUE, reasoning |-> TRUE],
    [id |-> ID_o1, display_name |-> "o1", provider |-> "OpenAI",
     status |-> "deprecated", vision |-> TRUE, reasoning |-> TRUE],
    [id |-> ID_gemini, display_name |-> "Gemini 2.5 Pro", provider |-> "Google",
     status |-> "current", vision |-> TRUE, reasoning |-> TRUE] }

\* Further entries, for the registries the query tools are called on.
MoreRegistryPool ==
  { [id |-> ID_deepseek_chat, display_name |-> "DeepSeek V3", provider |-> "DeepSeek",
     status |-> "legacy", vision |-> FALSE, reasoning |-> FALSE],
    [id |-> ID_claude, display_name |-> "Claude Opus 4.6", provider |-> "Anthropic",
     status |-> "current", vision |-> TRUE, reasoning |-> FALSE] }

Registries == {r \in SUBSET RegistryPool : Cardinality(r) <= MaxReg}

\* Names the list-models endpoint of a provider may return.
ApiPool(p) ==
  CASE p = "OpenAI"   -> {ID_gpt_5, ID_o1, ID_gpt_5_dated}
    [] p = "Google"   -> {NAME_gemini, NAME_gemma, NAME_tuned}
    [] p = "xAI"      -> {ID_grok_2, ID_grok_dated}
    [] p = "DeepSeek" -> {ID_deepseek_chat, ID_deepseek_coder}
    [] p = "Mistral"  -> {ID_mistral_large, ID_open_mistral}

\* What awaiting client.get and reading the response can come to:
\*   raise: client.get or raise_for_status raises an exception e, str(e) = msg;
\*   json:  a 2xx response whose body is, by shape,
\*            "list":    the names, each in an item under the list key,
\*            "no list": an object without the list key,
\*            "no name": a list with an item that lacks the name key.
ExceptionMessages == {"", "401 Unauthorized"}
Responses(p) ==
  {[kind |-> "raise", msg |-> m, shape |-> "", names |-> {}] : m \in ExceptionMessages}
  \cup
  {[kind |-> "json", msg |-> "", shape |-> "list", names |-> n] :
     n \in {s \in SUBSET ApiPool(p) : Cardinality(s) <= MaxApi}}
  \cup
  {[kind |-> "json", msg |-> "", shape |-> s, names |-> {}] : s \in {"no list", "no name"}}

NoResponse == [kind |-> "none", msg |-> "", shape |-> "", names |-> {}]

\* os.environ: each variable is absent ({}), or holds one string.
EnvValues == {{}, {""}, {"sk-key"}}
Environments ==
  {e \in [{ENV_VAR(p) : p \in ApiProviders} -> EnvValues] :
     Cardinality({v \in DOMAIN e : e[v] = {"sk-key"}}) <= MaxKeysSet}

\* ----------------------------------------------------------------- state
VARIABLES
  MODELS,       \* the registry: a set of entries with distinct ids
  environ,      \* os.environ, restricted to the API-key variables
  pc,           \* per gathered task: "init", "await", "done"
  response,     \* per API provider: what its request came to
  requests,     \* the providers an HTTP GET was issued to
  diff,         \* per gathered task: its ProviderDiff (returned once "done")
  main_pc,      \* "gather", "exited"
  diffs,        \* the list main() passes to print_report
  stdout,       \* the lines print_report printed
  has_changes,  \* what print_report returned
  exit_status,  \* the status the process ended with
  call,         \* the query-tool call being served
  answer        \* the text a query tool returned

detect_vars == <<MODELS, environ, pc, response, requests, diff,
                 main_pc, diffs, stdout, has_changes, exit_status>>
tool_vars == <<call, answer>>
vars == <<MODELS, environ, pc, response, requests, diff,
          main_pc, diffs, stdout, has_changes, exit_status, call, answer>>

\* ---------------------------------------------------------- ProviderDiff
ProviderDiff(provider, registry_models) ==
  [provider |-> provider, api_models |-> {}, registry_models |-> registry_models,
   new_in_api |-> {}, missing_from_api |-> {}, skipped |-> FALSE,
   skip_reason |-> "", error |-> ""]

registry_models_for(provider) == {m.id : m \in {x \in MODELS : x.provider = provider}}

\* The local `diff` of a task that has not started.
NoDiff == ProviderDiff("", {})

\* ------------------------------------------------------ detect_<provider>
\* A variant of key_missing that tests `key is None` only.
key_missing_none_only(key) == key = {}

\* `not key`: the variable is absent or holds the empty string.
key_missing(key) == key = {} \/ key = {""}

\* The set all_models built from a response body that holds the list.
all_models(p, r) ==
  IF p = "Google" THEN {split_last(n) : n \in r.names} ELSE r.names

\* The filtered set assigned to diff.api_models.
filtered_models(p, r) ==
  {mid \in all_models(p, r) : ~should_skip_model(mid, SKIP_PREFIXES(p), FILTER_DATED(p))}

\* Whether the try block raises: the request's own exception, the KeyError
\* of m["id"] / m["name"] on an item without it, or the KeyError of ["data"]
\* on a body without the list (detect_google reads .get("models", []) and
\* does not raise there).
try_raises(p, r) ==
  \/ r.kind = "raise"
  \/ r.kind = "json" /\ r.shape = "no name"
  \/ r.kind = "json" /\ r.shape = "no list" /\ p # "Google"

\* str(e) of the exception the try block raises.
exception_str(p, r) ==
  IF r.kind = "raise" THEN r.msg
  ELSE IF r.shape = "no name" THEN "'" \o ITEM_KEY(p) \o "'"
  ELSE "'" \o LIST_KEY(p) \o "'"

\* A variant of set_differences with the operands of both differences swapped.
set_differences_swapped(d) ==
  [d EXCEPT !.new_in_api = d.registry_models \ d.api_models,
            !.missing_from_api = d.api_models \ d.registry_models]

\* The two set differences that end a detect function.
set_differences(d) ==
  [d EXCEPT !.new_in_api = d.api_models \ d.registry_models,
            !.missing_from_api = d.registry_models \ d.api_models]

\* A variant of detect_after_request whose except block does not return, so
\* that the set differences are computed after an exception too.
detect_after_request_no_return(p, d, r) ==
  IF try_raises(p, r)
  THEN set_differences([d EXCEPT !.error = exception_str(p, r)])
  ELSE set_differences([d EXCEPT !.api_models = filtered_models(p, r)])

\* A detect function from its try block on: the diff it returns, given the
\* diff d it built before the request and what the request came to.
detect_after_request(p, d, r) ==
  IF try_raises(p, r)
  THEN [d EXCEPT !.error = exception_str(p, r)]
  ELSE set_differences([d EXCEPT !.api_models = filtered_models(p, r)])

\* A detect function when the key is missing.
detect_skipped(p, d) ==
  [d EXCEPT !.skipped = TRUE, !.skip_reason = ENV_VAR(p) \o " not set"]

\* Tasks run their first step in the order gather created them.
my_turn(p) ==
  \E i \in 1..Len(GatherOrder) :
    /\ GatherOrder[i] = p
    /\ \A j \in 1..(i - 1) : pc[GatherOrder[j]] # "init"

\* detect_openai, detect_google, detect_xai, detect_deepseek, detect_mistral
\* up to the await: build the diff, read the key, return skipped or issue
\* the GET.
DetectStart(p) ==
  /\ main_pc = "gather"
  /\ p \in ApiProviders
  /\ pc[p] = "init"
  /\ my_turn(p)
  /\ LET d == ProviderDiff(p, registry_models_for(p))
         key == environ[ENV_VAR(p)]
     IN  IF key_missing(key)
         THEN /\ diff' = [diff EXCEPT ![p] = detect_skipped(p, d)]
              /\ pc' = [pc EXCEPT ![p] = "done"]
              /\ UNCHANGED requests
         ELSE /\ diff' = [diff EXCEPT ![p] = d]
              /\ pc' = [pc EXCEPT ![p] = "await"]
              /\ requests' = requests \cup {p}
  /\ UNCHANGED <<MODELS, environ, response, main_pc, diffs, stdout,
                 has_changes, exit_status, call, answer>>

\* The same functions from the await on: the request completes or raises,
\* and the function runs to its return.
DetectResume(p) ==
  /\ main_pc = "gather"
  /\ p \in ApiProviders
  /\ pc[p] = "await"
  /\ \E r \in Responses(p) :
       /\ response' = [response EXCEPT ![p] = r]
       /\ diff' = [diff EXCEPT ![p] = detect_after_request(p, diff[p], r)]
  /\ pc' = [pc EXCEPT ![p] = "done"]
  /\ UNCHANGED <<MODELS, environ, requests, main_pc, diffs, stdout,
                 has_changes, exit_status, call, answer>>

\* detect_anthropic: always skipped, no request.
detect_anthropic_result ==
  [ProviderDiff("Anthropic", registry_models_for("Anthropic")) EXCEPT
     !.skipped = TRUE,
     !.skip_reason = "No list-models API; manual review required for new models"]

detect_anthropic ==
  /\ main_pc = "gather"
  /\ pc["Anthropic"] = "init"
  /\ my_turn("Anthropic")
  /\ diff' = [diff EXCEPT !["Anthropic"] = detect_anthropic_result]
  /\ pc' = [pc EXCEPT !["Anthropic"] = "done"]
  /\ UNCHANGED <<MODELS, environ, response, requests, main_pc, diffs, stdout,
                 has_changes, exit_status, call, answer>>

\* detect_meta: always skipped.
detect_meta ==
  [ProviderDiff("Meta", registry_models_for("Meta")) EXCEPT
     !.skipped = TRUE,
     !.skip_reason = "No direct Meta API; open-weight models accessed via third-party providers"]

\* ------------------------------------------------------------ print_report
\* A printed line is a record: what the line is (tag), the provider section
\* it belongs to, the number and the model IDs it shows.  The "+ id" and
\* "- id" lines under [NEW] and [GONE] are the ids of that line.
Line(tag, provider, n, ids) == [tag |-> tag, provider |-> provider, n |-> n, ids |-> ids]

\* The body of `for diff in diffs` for one diff.
report_section(d) ==
  <<Line("---", d.provider, 0, {})>> \o
  ( IF d.error # ""
    THEN <<Line("[ERR]", d.provider, 0, {})>>
    ELSE IF d.skipped
    THEN <<Line("[SKIP]", d.provider, 0, {}),
           Line("Registry models", d.provider, Cardinality(d.registry_models), {})>>
    ELSE <<Line("API models (filtered)", d.provider, Cardinality(d.api_models), {}),
           Line("Registry models", d.provider, Cardinality(d.registry_models), {})>>
         \o (IF d.new_in_api # {}
             THEN <<Line("[NEW]", d.provider, Cardinality(d.new_in_api), d.new_in_api)>>
             ELSE <<>>)
         \o (IF d.missing_from_api # {}
             THEN <<Line("[GONE]", d.provider, Cardinality(d.missing_from_api),
                         d.missing_from_api)>>
             ELSE <<>>)
         \o (IF d.new_in_api = {} /\ d.missing_from_api = {}
             THEN <<Line("[OK]", d.provider, 0, {})>>
             ELSE <<>>) )

\* Whether the loop body reaches the totals (it `continue`s on error or skip).
section_counts(d) == d.error = "" /\ ~d.skipped

\* The loop, from diff number i on, with the locals it has accumulated.
RECURSIVE report_loop(_, _, _)
report_loop(ds, i, acc) ==
  IF i > Len(ds) THEN acc
  ELSE LET d == ds[i]
       IN  report_loop(ds, i + 1,
             [lines |-> acc.lines \o report_section(d),
              total_new |-> acc.total_new +
                 (IF section_counts(d) THEN Cardinality(d.new_in_api) ELSE 0),
              total_missing |-> acc.total_missing +
                 (IF section_counts(d) THEN Cardinality(d.missing_from_api) ELSE 0),
              has_errors |-> acc.has_errors \/ d.error # ""])

\* The three counts of the summary line.
checked_count(ds) == Cardinality({i \in 1..Len(ds) : ~ds[i].skipped /\ ds[i].error = ""})
skipped_count(ds) == Cardinality({i \in 1..Len(ds) : ds[i].skipped})
errored_count(ds) == Cardinality({i \in 1..Len(ds) : ds[i].error # ""})

\* A variant of report_return that looks at the new models only.
report_return_new_only(total_new, total_missing) == total_new > 0

\* The value print_report returns.
report_return(total_new, total_missing) == total_new > 0 \/ total_missing > 0

\* print_report: the lines printed and the value returned.
print_report(ds) ==
  LET head == <<Line("Registry", "", Cardinality(MODELS),
                     {m.provider : m \in MODELS})>>
      acc == report_loop(ds, 1, [lines |-> <<>>, total_new |-> 0,
                                 total_missing |-> 0, has_errors |-> FALSE])
      summary ==
        <<Line("Providers checked", "", checked_count(ds), {}),
          Line("Skipped", "", skipped_count(ds), {}),
          Line("Errors", "", errored_count(ds), {}),
          Line("New models found", "", acc.total_new, {}),
          Line("Missing from API", "", acc.total_missing, {})>>
      actions ==
        (IF acc.total_new > 0
         THEN <<Line("ACTION NEEDED: New models detected", "", 0, {})>> ELSE <<>>)
        \o (IF acc.total_missing > 0
            THEN <<Line("ACTION NEEDED: Models missing from API", "", 0, {})>> ELSE <<>>)
        \o (IF acc.total_new = 0 /\ acc.total_missing = 0 /\ ~acc.has_errors
            THEN <<Line("No changes detected", "", 0, {})>> ELSE <<>>)
  IN  [lines |-> head \o acc.lines \o summary \o actions,
       ret |-> report_return(acc.total_new, acc.total_missing)]

\* -------------------------------------------------------------------- main
\* What asyncio.gather returns: the tasks' diffs in argument order.
gather_results == [i \in 1..Len(GatherOrder) |-> diff[GatherOrder[i]]]

\* main() once every gathered task has returned: add Meta, print the report,
\* exit with status 1 on changes and end normally (status 0) otherwise.
main_report ==
  /\ main_pc = "gather"
  /\ \A i \in 1..Len(GatherOrder) : pc[GatherOrder[i]] = "done"
  /\ LET ds == gather_results \o <<detect_meta>>
         rep == print_report(ds)
     IN  /\ diffs' = ds
         /\ stdout' = rep.lines
         /\ has_changes' = rep.ret
         /\ exit_status' = IF rep.ret THEN 1 ELSE 0
  /\ main_pc' = "exited"
  /\ UNCHANGED <<MODELS, environ, pc, response, requests, diff, call, answer>>

\* ------------------------------------------------- specification of a run
NoCall == [tool |-> "none"]
NoAnswer == [kind |-> "none"]

Init ==
  /\ MODELS \in Registries
  /\ environ \in Environments
  /\ pc = [p \in {GatherOrder[i] : i \in 1..Len(GatherOrder)} |-> "init"]
  /\ response = [p \in ApiProviders |-> NoResponse]
  /\ requests = {}
  /\ diff = [p \in {GatherOrder[i] : i \in 1..Len(GatherOrder)} |-> NoDiff]
  /\ main_pc = "gather"
  /\ diffs = <<>>
  /\ stdout = <<>>
  /\ has_changes = FALSE
  /\ exit_status = 0
  /\ call = NoCall
  /\ answer = NoAnswer

Next ==
  \/ \E p \in ApiProviders : DetectStart(p)
  \/ \E p \in ApiProviders : DetectResume(p)
  \/ detect_anthropic
  \/ main_report

Spec == Init /\ [][Next]_vars

\* ======================================================== claims on a run
\* The registry IDs of a provider, read off MODELS.
RegistryIds(p) == {m.id : m \in {x \in MODELS : x.provider = p}}
\* The provider's key variable is set to a non-empty string.
KeySet(p) == environ[ENV_VAR(p)] # {} /\ environ[ENV_VAR(p)] # {""}
\* The provider's detect function has returned.
Returned(p) == pc[p] = "done"
\* The provider's request raised: the request itself, or reading a
\* malformed body (an item without its name; no "data" list).
Raised(p) ==
  \/ response[p].kind = "raise"
  \/ response[p].kind = "json" /\ response[p].shape = "no name"
  \/ response[p].kind = "json" /\ response[p].shape = "no list" /\ p # "Google"
\* The provider was actually checked: key set, request and parsing succeeded.
Checked(p) == Returned(p) /\ KeySet(p) /\ response[p].kind = "json" /\ ~Raised(p)
\* The IDs the endpoint listed.
ListedIds(p) ==
  IF p = "Google" THEN {split_last(n) : n \in response[p].names}
  ELSE response[p].names
\* Of the IDs a provider's endpoint may list, those that should_skip_model
\* skips when called as that provider's detect function calls it.
SkippedIds ==
  [p \in ApiProviders |->
     {mid \in (IF p = "Google" THEN {split_last(n) : n \in ApiPool(p)} ELSE ApiPool(p)) :
        should_skip_model(mid, SKIP_PREFIXES(p), p = "OpenAI")}]
\* The lines of stdout with a tag, and with a tag for a provider.
LinesTagged(tag) == {i \in 1..Len(stdout) : stdout[i].tag = tag}
LinesOf(tag, p) == {i \in 1..Len(stdout) : stdout[i].tag = tag /\ stdout[i].provider = p}

RECURSIVE SumOver(_, _)
SumOver(S, f) ==
  IF S = {} THEN 0
  ELSE LET x == CHOOSE y \in S : TRUE IN f[x] + SumOver(S \ {x}, f)

\* C1: for every checked provider, api_models is exactly the listed IDs that
\* should_skip_model does not skip, new_in_api = api_models minus the
\* provider's registry IDs, missing_from_api = the registry IDs minus
\* api_models; hence the two are disjoint, new_in_api holds no registry ID
\* and missing_from_api is a subset of registry_models.
C1_CheckedDiff ==
  \A p \in ApiProviders :
    Checked(p) =>
      LET d == diff[p]
      IN  /\ d.api_models =
               {mid \in ListedIds(p) : mid \notin SkippedIds[p]}
          /\ d.new_in_api = d.api_models \ RegistryIds(p)
          /\ d.missing_from_api = RegistryIds(p) \ d.api_models
          /\ d.new_in_api \cap d.missing_from_api = {}
          /\ d.new_in_api \cap RegistryIds(p) = {}
          /\ d.missing_from_api \subseteq d.registry_models

\* A checked provider with a new model and a missing model at once.
C1_Witness ==
  \E p \in ApiProviders :
    Checked(p) /\ diff[p].new_in_api # {} /\ diff[p].missing_from_api # {}

\* C2: when main has ended, the exit status is 1 exactly if print_report
\* returned True, print_report returned True exactly if some diff has a
\* non-empty new_in_api or missing_from_api, and otherwise the status is 0.
C2_ExitStatus ==
  main_pc = "exited" =>
    /\ exit_status \in {0, 1}
    /\ (exit_status = 1) <=> has_changes
    /\ has_changes <=>
         \E i \in 1..Len(diffs) :
           diffs[i].new_in_api # {} \/ diffs[i].missing_from_api # {}

\* A run that exits 1 because of a missing model only, beside a provider
\* whose request raised.
C2_Witness ==
  /\ main_pc = "exited"
  /\ exit_status = 1
  /\ \A i \in 1..Len(diffs) : diffs[i].new_in_api = {}
  /\ \E p \in ApiProviders : Returned(p) /\ KeySet(p) /\ Raised(p)

\* C3: every ID printed under "[GONE]" for a provider is a registry model of
\* that provider which the endpoint did not list.
C3_GoneWasNotListed ==
  main_pc = "exited" =>
    \A i \in LinesTagged("[GONE]") :
      \A mid \in stdout[i].ids :
        /\ mid \in RegistryIds(stdout[i].provider)
        /\ mid \notin ListedIds(stdout[i].provider)

\* C4: a provider whose key is unset or empty has returned, as soon as it
\* ran, a skipped diff naming the variable, with no request issued, no
\* error, empty api_models, new_in_api and missing_from_api and the
\* provider's registry IDs in registry_models; the totals of the report are
\* those of the providers whose key is set.
C4_SkippedWithoutKey ==
  /\ \A p \in ApiProviders :
       (pc[p] # "init" /\ ~KeySet(p)) =>
         /\ p \notin requests
         /\ response[p] = NoResponse
         /\ Returned(p)
         /\ diff[p].skipped
         /\ diff[p].skip_reason = ENV_VAR(p) \o " not set"
         /\ diff[p].error = ""
         /\ diff[p].api_models = {}
         /\ diff[p].new_in_api = {}
         /\ diff[p].missing_from_api = {}
         /\ diff[p].registry_models = RegistryIds(p)
  /\ main_pc = "exited" =>
       LET keyed == {p \in ApiProviders : KeySet(p)}
       IN  /\ \A i \in LinesTagged("New models found") :
                stdout[i].n =
                  SumOver(keyed, [p \in keyed |-> Cardinality(diff[p].new_in_api)])
           /\ \A i \in LinesTagged("Missing from API") :
                stdout[i].n =
                  SumOver(keyed, [p \in keyed |-> Cardinality(diff[p].missing_from_api)])
           /\ (keyed = {} => exit_status = 0)

\* One provider skipped for an unset key and one for an empty key, each with
\* registry models, in a run that has ended.
C4_Witness ==
  /\ main_pc = "exited"
  /\ \E p \in ApiProviders : environ[ENV_VAR(p)] = {} /\ diff[p].skipped
  /\ \E p \in ApiProviders :
       environ[ENV_VAR(p)] = {""} /\ diff[p].skipped /\ diff[p].registry_models # {}

\* C7: a provider whose request raised returns a diff with empty api_models,
\* new_in_api and missing_from_api and skipped False (the exception stays
\* inside the task, which returns), and every other provider's diff is the
\* one its own key, registry models and response determine.
C7_BestEffort ==
  \A p \in ApiProviders :
    /\ (response[p] # NoResponse => Returned(p))
    /\ (Returned(p) /\ KeySet(p) /\ Raised(p)) =>
         /\ diff[p].api_models = {}
         /\ diff[p].new_in_api = {}
         /\ diff[p].missing_from_api = {}
         /\ ~diff[p].skipped
         /\ diff[p].registry_models = RegistryIds(p)
    /\ (Returned(p) /\ ~KeySet(p)) =>
         /\ diff[p].skipped
         /\ diff[p].api_models = {}
         /\ diff[p].new_in_api = {}
         /\ diff[p].missing_from_api = {}
    /\ Checked(p) =>
         /\ ~diff[p].skipped
         /\ diff[p].error = ""
         /\ diff[p].api_models =
              {mid \in ListedIds(p) : mid \notin SkippedIds[p]}
         /\ diff[p].new_in_api = diff[p].api_models \ RegistryIds(p)
         /\ diff[p].missing_from_api = RegistryIds(p) \ diff[p].api_models

\* A provider whose request raised, with registry models of its own, beside
\* a provider that was checked and found a new model.
C7_Witness ==
  \E p, q \in ApiProviders :
    /\ p # q
    /\ Returned(p) /\ KeySet(p) /\ Raised(p) /\ RegistryIds(p) # {}
    /\ Checked(q) /\ diff[q].new_in_api # {}

\* C8: as applied, no ID in a checked provider's api_models starts, letter
\* case ignored, with one of that provider's skip prefixes; dated-snapshot
\* IDs are removed for OpenAI and kept for the other providers unless a
\* prefix matches.
C8_NoSkipPrefixInApiModels ==
  \A p \in ApiProviders :
    Checked(p) =>
      /\ \A mid \in diff[p].api_models :
           \A i \in 1..Len(SKIP_PREFIXES(p)) :
             ~startswith(lower(mid), lower(SKIP_PREFIXES(p)[i]))
      /\ (p = "OpenAI" =>
            \A mid \in diff[p].api_models : ~dated_match_ending_at(mid, Len(mid)))
      /\ (p # "OpenAI" =>
            \A mid \in ListedIds(p) :
              ( /\ dated_match_ending_at(mid, Len(mid))
                /\ \A i \in 1..Len(SKIP_PREFIXES(p)) :
                     ~startswith(lower(mid), lower(SKIP_PREFIXES(p)[i])) )
              => mid \in diff[p].api_models)

\* C9: a provider whose request raised is reported as an error: its section
\* holds the "[ERR]" line and no "[OK]" line, the "Errors" count covers it,
\* the "Providers checked" count does not, and "No changes detected" is not
\* printed.
C9_RaisedIsReported ==
  main_pc = "exited" =>
    LET raised == {p \in ApiProviders : KeySet(p) /\ Raised(p)}
    IN  /\ \A p \in raised : LinesOf("[ERR]", p) # {} /\ LinesOf("[OK]", p) = {}
        /\ \A i \in LinesTagged("Errors") : stdout[i].n = Cardinality(raised)
        /\ \A i \in LinesTagged("Providers checked") :
             stdout[i].n = Cardinality({p \in ApiProviders : Checked(p)})
        /\ (raised # {} => LinesTagged("No changes detected") = {})

\* ============================================================ query tools
\* The registry tools (list_models, get_model_info, check_model_status,
\* compare_models) as their tests and the specification describe them: pure
\* functions of the registry that return text.  An answer is the kind of
\* text returned and the registry entries it shows.

\* Longest list of IDs handed to compare_models.
MaxCompare == 2

\* A provider name as characters.
PROVIDER_CHARS(name) ==
  CASE name = "OpenAI"    -> <<"O", "p", "e", "n", "A", "I">>
    [] name = "Google"    -> <<"G", "o", "o", "g", "l", "e">>
    [] name = "DeepSeek"  -> <<"D", "e", "e", "p", "S", "e", "e", "k">>
    [] name = "Anthropic" -> <<"A", "n", "t", "h", "r", "o", "p", "i", "c">>
    [] name = "xAI"       -> <<"x", "A", "I">>
    [] name = "Mistral"   -> <<"M", "i", "s", "t", "r", "a", "l">>
    [] name = "Meta"      -> <<"M", "e", "t", "a">>

\* Arguments the tools are called with.  An optional argument is a set
\* holding no value (None) or one.
ProviderArgs ==
  { {},
    {<<"A", "n", "t", "h", "r", "o", "p", "i", "c">>},
    {<<"a", "n", "t", "h", "r", "o", "p", "i", "c">>},
    {<<"O", "p", "e", "n", "A", "I">>},
    {<<"N", "o", "n", "e", "x", "i", "s", "t", "e", "n", "t">>} }
StatusArgs == {{}, {"current"}, {"legacy"}, {"deprecated"}}
CapabilityArgs == {{}, {"vision"}, {"reasoning"}}
QueryIds ==
  { ID_gpt_5,
    <<"G", "P", "T", "-", "5">>,
    <<"C", "L", "A", "U", "D", "E", "-", "O", "P", "U", "S", "-", "4", "-", "6">>,
    <<"o", "p", "u", "s", "-", "4", "-", "6">>,
    <<"n", "o", "n", "e", "x", "i", "s", "t", "e", "n", "t", "-", "m", "o", "d", "e", "l">> }
QueryLists == UNION {[1..n -> QueryIds] : n \in 0..MaxCompare}

ToolRegistries ==
  {r \in SUBSET (RegistryPool \cup MoreRegistryPool) : Cardinality(r) <= MaxReg + 1}

\* `sub in s` on strings.
contains(s, sub) ==
  \E i \in 0..(Len(s) - Len(sub)) : SubSeq(s, i + 1, i + Len(sub)) = sub

\* Whether an entry passes the filters given to list_models.
passes_filters(m, provider, status, capability) ==
  /\ \A v \in provider : lower(PROVIDER_CHARS(m.provider)) = lower(v)
  /\ \A v \in status : m.status = v
  /\ \A v \in capability :
       \/ v = "vision" /\ m.vision
       \/ v = "reasoning" /\ m.reasoning

\* A variant of list_models that ignores the capability filter.
list_models_no_capability(provider, status, capability) ==
  LET hits == {m \in MODELS : passes_filters(m, provider, status, {})}
  IN  IF hits = {}
      THEN [kind |-> "No models found", rows |-> {}]
      ELSE [kind |-> "table", rows |-> hits]

\* list_models: a table with one row per entry that passes every filter,
\* or the "No models found" message when none does.
list_models(provider, status, capability) ==
  LET hits == {m \in MODELS : passes_filters(m, provider, status, capability)}
  IN  IF hits = {}
      THEN [kind |-> "No models found", rows |-> {}]
      ELSE [kind |-> "table", rows |-> hits]

\* A variant of exact_matches that compares the ID as given.
exact_matches_case_sensitive(model_id) == {m \in MODELS : m.id = model_id}

\* The entries an ID resolves to, letter case ignored.
exact_matches(model_id) == {m \in MODELS : lower(m.id) = lower(model_id)}
\* The entries whose ID holds the given text (get_model_info's fallback).
partial_matches(model_id) == {m \in MODELS : contains(lower(m.id), lower(model_id))}

\* The answers get_model_info may give: the details of the entry the ID
\* resolves to, else of an entry it partially matches, else "not found".
get_model_info(model_id) ==
  IF exact_matches(model_id) # {}
  THEN {[kind |-> "details", rows |-> {m}] : m \in exact_matches(model_id)}
  ELSE IF partial_matches(model_id) # {}
  THEN {[kind |-> "details", rows |-> {m}] : m \in partial_matches(model_id)}
  ELSE {[kind |-> "not found", rows |-> {}]}

\* check_model_status: the status of the entry the ID resolves to.
check_model_status(model_id) ==
  IF exact_matches(model_id) # {}
  THEN {[kind |-> "status", rows |-> {m}] : m \in exact_matches(model_id)}
  ELSE {[kind |-> "not found", rows |-> {}]}

\* compare_models: an error for fewer than 2 IDs, "not found" when an ID
\* does not resolve, else a table of the entries.
compare_models(model_ids) ==
  IF Len(model_ids) < 2
  THEN [kind |-> "at least 2", rows |-> {}]
  ELSE IF \E i \in 1..Len(model_ids) : exact_matches(model_ids[i]) = {}
  THEN [kind |-> "not found", rows |-> {}]
  ELSE [kind |-> "comparison",
        rows |-> UNION {exact_matches(model_ids[i]) : i \in 1..Len(model_ids)}]

CallListModels ==
  \E provider \in ProviderArgs, status \in StatusArgs, capability \in CapabilityArgs :
    /\ call' = [tool |-> "list_models", provider |-> provider, status |-> status,
                capability |-> capability]
    /\ answer' = list_models(provider, status, capability)
    /\ UNCHANGED detect_vars

CallGetModelInfo ==
  \E model_id \in QueryIds :
    /\ call' = [tool |-> "get_model_info", model_id |-> model_id]
    /\ answer' \in get_model_info(model_id)
    /\ UNCHANGED detect_vars

CallCheckModelStatus ==
  \E model_id \in QueryIds :
    /\ call' = [tool |-> "check_model_status", model_id |-> model_id]
    /\ answer' \in check_model_status(model_id)
    /\ UNCHANGED detect_vars

CallCompareModels ==
  \E model_ids \in QueryLists :
    /\ call' = [tool |-> "compare_models", model_ids |-> model_ids]
    /\ answer' = compare_models(model_ids)
    /\ UNCHANGED detect_vars

InitTools ==
  /\ MODELS \in ToolRegistries
  /\ environ = [v \in {ENV_VAR(p) : p \in ApiProviders} |-> {}]
  /\ pc = [p \in {GatherOrder[i] : i \in 1..Len(GatherOrder)} |-> "init"]
  /\ response = [p \in ApiProviders |-> NoResponse]
  /\ requests = {}
  /\ diff = [p \in {GatherOrder[i] : i \in 1..Len(GatherOrder)} |-> NoDiff]
  /\ main_pc = "gather"
  /\ diffs = <<>>
  /\ stdout = <<>>
  /\ has_changes = FALSE
  /\ exit_status = 0
  /\ call = NoCall
  /\ answer = NoAnswer

NextTools ==
  \/ CallListModels
  \/ CallGetModelInfo
  \/ CallCheckModelStatus
  \/ CallCompareModels

SpecTools == InitTools /\ [][NextTools]_vars

\* ============================================== claims on the query tools
\* C5: list_models shows only entries that pass every filter given: with no
\* filter every entry is a row; with a provider (letter case ignored),
\* status or capability filter no entry failing it is a row; and when no
\* entry passes, the answer is "No models found" and not a table.
C5_ListModelsFilters ==
  call.tool = "list_models" =>
    LET fails(m) ==
          \/ \E v \in call.provider : lower(PROVIDER_CHARS(m.provider)) # lower(v)
          \/ \E v \in call.status : m.status # v
          \/ "vision" \in call.capability /\ ~m.vision
          \/ "reasoning" \in call.capability /\ ~m.reasoning
    IN  /\ answer.rows \subseteq MODELS
        /\ \A m \in MODELS : fails(m) => m \notin answer.rows
        /\ (call.provider = {} /\ call.status = {} /\ call.capability = {})
             => answer.rows = MODELS
        /\ (\A m \in MODELS : fails(m)) <=> answer.kind = "No models found"
        /\ answer.kind \in {"No models found", "table"}

\* list_models called with a lower-case provider filter on a registry that
\* holds an entry of that provider and an entry of another one.
C5_Witness ==
  /\ call.tool = "list_models"
  /\ call.provider = {<<"a", "n", "t", "h", "r", "o", "p", "i", "c">>}
  /\ answer.kind = "table"
  /\ answer.rows # MODELS

\* C6: lookup by ID ignores letter case and never fails: an ID that differs
\* from a registry key only in letter case resolves to that entry; an ID
\* that matches no entry gives "not found"; compare_models with fewer than 2
\* IDs gives the "at least 2" error and with an unresolvable ID "not found".
C6_LookupCaseInsensitiveTotal ==
  LET same(m, q) == lower(m.id) = lower(q)
      resolves(q) == \E m \in MODELS : same(m, q)
      matches(q) == \E m \in MODELS : contains(lower(m.id), lower(q))
  IN  /\ call.tool = "get_model_info" =>
           /\ answer.kind \in {"details", "not found"}
           /\ resolves(call.model_id) =>
                /\ answer.kind = "details"
                /\ \A m \in answer.rows : same(m, call.model_id)
           /\ ~matches(call.model_id) => answer.kind = "not found"
      /\ call.tool = "check_model_status" =>
           /\ answer.kind \in {"status", "not found"}
           /\ resolves(call.model_id) =>
                /\ answer.kind = "status"
                /\ \A m \in answer.rows : same(m, call.model_id)
           /\ ~resolves(call.model_id) => answer.kind = "not found"
      /\ call.tool = "compare_models" =>
           LET ids == call.model_ids
           IN  /\ Len(ids) < 2 => answer.kind = "at least 2"
               /\ (Len(ids) >= 2 /\ \E i \in 1..Len(ids) : ~resolves(ids[i]))
                    => answer.kind = "not found"
               /\ (Len(ids) >= 2 /\ \A i \in 1..Len(ids) : resolves(ids[i]))
                    => /\ answer.kind = "comparison"
                       /\ \A i \in 1..Len(ids) :
                            \E m \in answer.rows : same(m, ids[i])

\* compare_models called with two upper-case IDs that both resolve.
C6_Witness ==
  /\ call.tool = "compare_models"
  /\ call.model_ids =
       << <<"G", "P", "T", "-", "5">>,
          <<"C", "L", "A", "U", "D", "E", "-", "O", "P", "U", "S", "-", "4", "-", "6">> >>
  /\ answer.kind = "comparison"
  /\ Cardinality(answer.rows) = 2
====
